---------------------------- MODULE Spec2Model ----------------------------
(***************************************************************************)
(* Camel Live scraper API: the request handlers, the scraper singleton,    *)
(* its TTL cache, its rate limiter and the browser life cycle of           *)
(* src/scraper.py and src/app.py, as one state machine.                    *)
(*                                                                         *)
(* A request is served by a caller (a worker thread of the web server).    *)
(* Each action is one step of a handler between two points where another   *)
(* caller can run or the clock can advance.  The variable impl says which  *)
(* of the two source files is deployed.                                    *)
(***************************************************************************)
EXTENDS Naturals, Integers, Sequences, FiniteSets, TLC

VARIABLES
    impl,                \* "scraper" (src/scraper.py) or "app" (src/app.py)
    SELENIUM_AVAILABLE,  \* module flag set by the import block
    ENABLE_SELENIUM,     \* Config.ENABLE_SELENIUM (src/app.py only)
    callers,             \* the worker threads that serve requests
    now,                 \* the wall clock, in ticks
    scraper,             \* module global `scraper`: None or an instance
    cache,               \* instance -> self.cache (key -> (data, timestamp))
    last_call,           \* instance -> self.rate_limiter.last_call
    pc,                  \* caller -> position in the handler
    req,                 \* caller -> the request being served
    loc,                 \* caller -> the handler's local variables
    result,              \* caller -> the response of the finished request
    hist,                \* caller -> what the current request did (history)
    calls,               \* requests accepted so far
    frame                \* a helper method called on its own: arguments, locals

vars == <<impl, SELENIUM_AVAILABLE, ENABLE_SELENIUM, callers, now, scraper, cache, last_call,
          pc, req, loc, result, hist, calls, frame>>

-----------------------------------------------------------------------------
(* Bounds of the model *)

MaxTime == 3        \* the clock stops this many ticks after the start
MaxCalls == 2       \* requests accepted in one run
MaxLinks == 2       \* links the homepage yields at most

(* Configuration, in clock ticks *)
CACHE_TIMEOUT == 2  \* Config.CACHE_TIMEOUT
MinInterval == 2    \* 1.0 / calls_per_second

\* time.time() at process start: seconds since 1970, far more than 1 / rate
Epoch == MinInterval

AllCallers == {"a", "b"}
None == "None"

SlugUrl == "/game/match-a-vs-b"
PlainUrl == "/game/123"
Urls == {SlugUrl, PlainUrl}
MissingUrl == ""

Ops == {"matches", "match", "stream"}

-----------------------------------------------------------------------------
(* Records and responses *)

\* match_data = {'match_url': url}
NewMatchData(u) ==
    [match_url |-> u, match_name |-> "absent", stream_url |-> "absent",
     error |-> FALSE, fallback |-> FALSE]

\* re.search(r'/match-([^/]+)', url)
HasSlug(u) == u = SlugUrl

\* jsonify({'success': False, 'error': 'URL parameter is required'}), 400
InputError == [kind |-> "input_error", status |-> 400]

\* jsonify({'success': False, 'error': str(e)}), 500
Failure == [kind |-> "failure", status |-> 500]

\* jsonify({'success': True, 'match': match_data, ...})
MatchResponse(md) == [kind |-> "match", status |-> 200, match |-> md]

\* jsonify({'success': True, 'stream_url': match_data.get('stream_url'), 'match_url': url, ...})
StreamResponse(md, u) ==
    [kind |-> "stream", status |-> 200, match_url |-> u,
     stream_url |-> IF md.stream_url = "absent" THEN "none" ELSE md.stream_url]

\* jsonify({'success': True, 'count': len(matches), 'matches': matches, ...})
MatchesResponse(ms, fb) ==
    [kind |-> "matches", status |-> 200, count |-> Len(ms), matches |-> ms,
     fallback |-> fb]

LocInit ==
    [inst |-> None, now |-> 0, wake |-> 0, driver |-> FALSE,
     page_driver |-> FALSE, links |-> <<>>, cur |-> MissingUrl,
     matches |-> <<>>, match_data |-> NewMatchData(MissingUrl)]

HistInit ==
    [effects |-> {}, checked |-> FALSE, present |-> FALSE, fresh |-> FALSE,
     slept |-> FALSE, waits |-> 0,
     invoked |-> 0, returned |-> FALSE, stored_at |-> 0, home_failed |-> FALSE,
     attempted |-> <<>>, failed |-> {}, live |-> 0]

NoRequest == [op |-> "none", url |-> MissingUrl]

EmptyCache == [k \in {} |-> 0]


NoResult == [kind |-> "none", status |-> 0]

\* no helper method is being called on its own
NoFrame == [fn |-> "none"]

\* hash(url): one integer per URL string within a process
Hash(u) == IF u = SlugUrl THEN 1 ELSE IF u = PlainUrl THEN 2 ELSE 0

\* variant: get_stream with get_match's cache key
CacheKeyShared(r) ==
    IF r.op = "matches" THEN <<"home_matches", 0>> ELSE <<"match_", Hash(r.url)>>

\* 'home_matches', f'match_{hash(url)}', f'stream_{hash(url)}'
CacheKey(r) ==
    IF r.op = "matches" THEN <<"home_matches", 0>>
    ELSE IF r.op = "match" THEN <<"match_", Hash(r.url)>>
    ELSE <<"stream_", Hash(r.url)>>

\* variant: the handler without its `if not url` test
UrlRejectedNever(r) == FALSE

\* `if not url:` in get_match / get_stream
UrlRejected(r) == r.op \in {"match", "stream"} /\ r.url = MissingUrl

\* variant: the lookup without the expiry test
CacheFreshNoExpiry(c, key, tnow) == key \in DOMAIN c

\* `key in self.cache` and `now - timestamp < self.cache_timeout`
CacheFresh(c, key, tnow) ==
    /\ key \in DOMAIN c
    /\ tnow - c[key].timestamp < CACHE_TIMEOUT

\* variant: the result of the scrape is returned and not stored
CachePutNothing(c, key, data, stamp) == c

\* self.cache[key] = (data, now)
CachePut(c, key, data, stamp) ==
    [k \in DOMAIN c \cup {key} |->
        IF k = key THEN [data |-> data, timestamp |-> stamp] ELSE c[k]]

\* variant: wait() without the sleep
WakeTimeNoSleep(tnow, last) == tnow

\* wait_time = 1.0 / self.calls_per_second - elapsed; time.sleep(wait_time) if > 0
WakeTime(tnow, last) ==
    IF MinInterval - (tnow - last) > 0 THEN tnow + (MinInterval - (tnow - last))
    ELSE tnow

\* max_matches = 3 (src/app.py); src/scraper.py processes every link
max_matches == 3

Take(s, n) == IF Len(s) <= n THEN s ELSE SubSeq(s, 1, n)

\* match_links = match_links[:max_matches]
CapLinks(ls) == IF impl = "app" THEN Take(ls, max_matches) ELSE ls

\* list(match_links) of a set of hrefs: distinct URLs in some order
LinkLists ==
    {s \in UNION {[1..n -> Urls] : n \in 0..MaxLinks} :
        \A i, j \in DOMAIN s : i # j => s[i] # s[j]}

\* a record of _fallback_home_matches
FallbackRecord(u) ==
    [match_url |-> u, match_name |-> "parsed", stream_url |-> "none",
     error |-> FALSE, fallback |-> TRUE]

\* what _fallback_home_matches can return: the regex finds only
\* /game/match-... hrefs; a failed static fetch gives []
FallbackLists == {<<>>, <<FallbackRecord(SlugUrl)>>}

TypeOK ==
    /\ impl \in {"scraper", "app"}
    /\ SELENIUM_AVAILABLE \in BOOLEAN
    /\ callers \subseteq AllCallers
    /\ now \in Epoch..Epoch + MaxTime
    /\ scraper \in AllCallers \cup {None}
    /\ \A t \in AllCallers : pc[t] \in
         {"idle", "get_scraper", "init", "cache_check", "home_driver",
          "home_load", "rl_wait", "rl_sleep", "get_driver", "load", "quit",
          "home_quit", "fallback_only", "done"}
    /\ calls \in 0..MaxCalls

InitCommon ==
    /\ impl \in {"scraper", "app"}
    /\ SELENIUM_AVAILABLE \in BOOLEAN
    /\ ENABLE_SELENIUM \in (IF impl = "app" THEN BOOLEAN ELSE {TRUE})
    /\ now = Epoch
    /\ scraper = None
    /\ cache = [i \in AllCallers |-> EmptyCache]
    /\ last_call = [i \in AllCallers |-> 0]
    /\ pc = [t \in AllCallers |-> "idle"]
    /\ req = [t \in AllCallers |-> NoRequest]
    /\ loc = [t \in AllCallers |-> LocInit]
    /\ result = [t \in AllCallers |-> NoResult]
    /\ hist = [t \in AllCallers |-> HistInit]
    /\ calls = 0
    /\ frame = NoFrame

\* one caller: requests are served one after the other
Init == InitCommon /\ callers = {"a"}

\* a threaded server: two callers
InitConc == InitCommon /\ callers = AllCallers

-----------------------------------------------------------------------------
(* Leaving a handler *)

Finish(t, resp, h) ==
    /\ pc' = [pc EXCEPT ![t] = "done"]
    /\ result' = [result EXCEPT ![t] = resp]
    /\ loc' = [loc EXCEPT ![t] = LocInit]
    /\ hist' = [hist EXCEPT ![t] = h]

\* scrape_match_page starts: driver = None; match_data = {'match_url': url}
StartPage(l, u) ==
    [l EXCEPT !.cur = u, !.page_driver = FALSE, !.match_data = NewMatchData(u)]

\* variant: scrape_match_page without self.rate_limiter.wait()
StartProducerNoWait(t, l, h) ==
    IF req[t].op = "matches"
    THEN /\ pc' = [pc EXCEPT ![t] = "home_driver"]
         /\ loc' = [loc EXCEPT ![t] = [l EXCEPT !.driver = FALSE, !.matches = <<>>]]
         /\ hist' = [hist EXCEPT ![t] = h]
    ELSE /\ pc' = [pc EXCEPT ![t] = "get_driver"]
         /\ loc' = [loc EXCEPT ![t] = StartPage(l, req[t].url)]
         /\ hist' = [hist EXCEPT ![t] =
               [h EXCEPT !.attempted = Append(@, req[t].url)]]

\* the first steps of a producer, by operation
StartProducer(t, l, h) ==
    IF req[t].op = "matches"
    THEN /\ pc' = [pc EXCEPT ![t] = "home_driver"]
         /\ loc' = [loc EXCEPT ![t] = [l EXCEPT !.driver = FALSE, !.matches = <<>>]]
         /\ hist' = [hist EXCEPT ![t] = h]
    ELSE /\ pc' = [pc EXCEPT ![t] = "rl_wait"]
         /\ loc' = [loc EXCEPT ![t] = StartPage(l, req[t].url)]
         /\ hist' = [hist EXCEPT ![t] =
               [h EXCEPT !.attempted = Append(@, req[t].url)]]


\* the body of a 200 response, by operation
Respond(r, data) ==
    IF r.op = "match" THEN MatchResponse(data)
    ELSE IF r.op = "stream" THEN StreamResponse(data, r.url)
    ELSE MatchesResponse(data, IF impl = "app" THEN "false" ELSE "absent")

-----------------------------------------------------------------------------
(* The handlers get_matches, get_match, get_stream up to get_scraper() *)

\* url = request.args.get('url'); if not url: return ..., 400
\* if not SELENIUM_AVAILABLE: return ..., 500   (src/scraper.py)
Request(t, o, u) ==
    /\ pc[t] = "idle"
    /\ calls < MaxCalls
    /\ calls' = calls + 1
    /\ LET r == [op |-> o, url |-> u] IN
       /\ req' = [req EXCEPT ![t] = r]
       /\ IF UrlRejected(r)
          THEN Finish(t, InputError, HistInit)
          ELSE IF impl = "scraper" /\ ~SELENIUM_AVAILABLE
          THEN Finish(t, Failure, HistInit)
          ELSE /\ pc' = [pc EXCEPT ![t] =
                    IF /\ impl = "app" /\ o = "matches"
                       /\ (~SELENIUM_AVAILABLE \/ ~ENABLE_SELENIUM)
                    THEN "fallback_only" ELSE "get_scraper"]
               /\ UNCHANGED <<result, loc, hist>>
    /\ UNCHANGED <<frame, impl, SELENIUM_AVAILABLE, ENABLE_SELENIUM, callers, now,
                   scraper, cache, last_call>>

\* src/app.py get_matches without Selenium:
\* fallback_scraper = CamelLiveScraper(); fallback_scraper._fallback_home_matches()
FallbackOnly(t, ok, fb) ==
    /\ pc[t] = "fallback_only"
    /\ IF ~SELENIUM_AVAILABLE \/ ~ok
       THEN Finish(t, Failure, hist[t])
       ELSE Finish(t, MatchesResponse(fb, "true"),
                   [hist[t] EXCEPT !.effects = @ \cup {"fetch"}])
    /\ UNCHANGED <<frame, impl, SELENIUM_AVAILABLE, ENABLE_SELENIUM, callers, now,
                   scraper, cache, last_call, req, calls>>

\* after scraper_instance = get_scraper(): src/scraper.py goes through
\* get_cached_or_scrape, src/app.py calls the scrape method directly
AfterScraper(t, i) ==
    IF impl = "scraper"
    THEN /\ pc' = [pc EXCEPT ![t] = "cache_check"]
         /\ loc' = [loc EXCEPT ![t].inst = i]
         /\ UNCHANGED hist
    ELSE StartProducer(t, [loc[t] EXCEPT !.inst = i], hist[t])

\* get_scraper(): `if scraper is None and SELENIUM_AVAILABLE ...`
GetScraper(t) ==
    /\ pc[t] = "get_scraper"
    /\ IF scraper = None /\ SELENIUM_AVAILABLE /\ ENABLE_SELENIUM
       THEN /\ pc' = [pc EXCEPT ![t] = "init"]
            /\ UNCHANGED <<loc, hist, result>>
       ELSE IF scraper = None
       THEN Finish(t, Failure, hist[t])      \* 'Scraper not available'
       ELSE AfterScraper(t, scraper) /\ UNCHANGED result
    /\ UNCHANGED <<frame, impl, SELENIUM_AVAILABLE, ENABLE_SELENIUM, callers, now,
                   scraper, cache, last_call, req, calls>>

\* scraper = CamelLiveScraper(): __init__ raises when no ChromeDriver can be set up
ScraperInit(t, ok) ==
    /\ pc[t] = "init"
    /\ IF ok
       THEN /\ scraper' = t
            /\ cache' = [cache EXCEPT ![t] = EmptyCache]
            /\ last_call' = [last_call EXCEPT ![t] = 0]
            /\ AfterScraper(t, t)
            /\ UNCHANGED result
       ELSE /\ Finish(t, Failure, hist[t])
            /\ UNCHANGED <<scraper, cache, last_call>>
    /\ UNCHANGED <<frame, impl, SELENIUM_AVAILABLE, ENABLE_SELENIUM, callers, now,
                   req, calls>>

-----------------------------------------------------------------------------
(* get_cached_or_scrape, first half: the lookup *)

CacheCheck(t) ==
    /\ pc[t] = "cache_check"
    /\ LET c == cache[loc[t].inst]
           key == CacheKey(req[t])
           h == [hist[t] EXCEPT
                   !.checked = TRUE,
                   !.present = key \in DOMAIN c,
                   !.fresh = /\ key \in DOMAIN c
                             /\ now - c[key].timestamp < CACHE_TIMEOUT]
       IN IF CacheFresh(c, key, now)
          THEN Finish(t, Respond(req[t], c[key].data), h)
          ELSE /\ StartProducer(t, [loc[t] EXCEPT !.now = now],
                                [h EXCEPT !.invoked = @ + 1])
               /\ UNCHANGED result
    /\ UNCHANGED <<frame, impl, SELENIUM_AVAILABLE, ENABLE_SELENIUM, callers, now,
                   scraper, cache, last_call, req, calls>>


-----------------------------------------------------------------------------
(* Returning from the scrape methods *)

\* scrape_match_page returns md, or raises out of its finally block.
\* Called from the loop of scrape_home_matches it appends to matches (an
\* exception is logged and the link skipped); called as a producer its value
\* goes to get_cached_or_scrape (src/scraper.py: self.cache[key] = (data, now))
\* or straight to the handler (src/app.py); an exception ends in the
\* handler's `except Exception`.
PageReturn(t, md, raised, h) ==
    IF req[t].op = "matches"
    THEN LET ms == IF raised THEN loc[t].matches ELSE Append(loc[t].matches, md)
             h2 == IF raised \/ md.error
                   THEN [h EXCEPT !.failed = @ \cup {loc[t].cur}] ELSE h
         IN /\ IF loc[t].links = <<>>
               THEN /\ pc' = [pc EXCEPT ![t] = "home_quit"]
                    /\ loc' = [loc EXCEPT ![t] =
                          [StartPage(loc[t], MissingUrl) EXCEPT !.matches = ms]]
                    /\ hist' = [hist EXCEPT ![t] = h2]
               ELSE /\ pc' = [pc EXCEPT ![t] = "rl_wait"]
                    /\ loc' = [loc EXCEPT ![t] =
                          [StartPage(loc[t], Head(loc[t].links)) EXCEPT
                              !.matches = ms, !.links = Tail(loc[t].links)]]
                    /\ hist' = [hist EXCEPT ![t] =
                          [h2 EXCEPT !.attempted = Append(@, Head(loc[t].links))]]
            /\ UNCHANGED <<cache, result>>
    ELSE IF raised
    THEN Finish(t, Failure, h) /\ UNCHANGED cache
    ELSE IF impl = "scraper"
    THEN /\ cache' = [cache EXCEPT ![loc[t].inst] =
               CachePut(@, CacheKey(req[t]), md, loc[t].now)]
         /\ Finish(t, Respond(req[t], md), [h EXCEPT !.returned = TRUE, !.stored_at = now])
    ELSE Finish(t, Respond(req[t], md), h) /\ UNCHANGED cache

\* scrape_home_matches returns ms, or raises out of its finally block
HomeReturn(t, ms, raised, h) ==
    IF raised
    THEN Finish(t, Failure, h) /\ UNCHANGED cache
    ELSE IF impl = "scraper"
    THEN /\ cache' = [cache EXCEPT ![loc[t].inst] =
               CachePut(@, CacheKey(req[t]), ms, loc[t].now)]
         /\ Finish(t, Respond(req[t], ms), [h EXCEPT !.returned = TRUE, !.stored_at = now])
    ELSE Finish(t, Respond(req[t], ms), h) /\ UNCHANGED cache

\* what the `except Exception` of scrape_home_matches leaves in matches:
\* [] in src/scraper.py, self._fallback_home_matches() in src/app.py
HomeExcept(fb) == IF impl = "app" THEN fb \in FallbackLists ELSE fb = <<>>

\* get_driver(): webdriver.Chrome(...) then driver.execute_script(...).
\* "chrome_fail": no browser was started; "script_fail": the browser runs and
\* the exception leaves get_driver without the instance being returned.
DriverOutcomes == {"ok", "chrome_fail", "script_fail"}

Started(h, out) ==
    IF out = "chrome_fail" THEN h
    ELSE [h EXCEPT !.live = @ + 1, !.effects = @ \cup {"browser"}]

-----------------------------------------------------------------------------------------------------------------------------------------------------
(* scrape_home_matches *)

\* driver = self.get_driver(); driver.get(home); wait.until(body);
\* match_links = self._find_match_links(driver), up to the first link's
\* scrape_match_page or, on an exception, to the finally block
HomeFetch(t, out, ok, ls, fb) ==
    /\ pc[t] = "home_driver"
    /\ LET h == Started(hist[t], out)
           hx == [h EXCEPT !.home_failed = TRUE,
                           !.effects = IF impl = "app" THEN @ \cup {"fetch"} ELSE @]
           hf == [h EXCEPT !.effects = @ \cup {"fetch"}]
           links == CapLinks(ls)
       IN IF out # "ok"
          THEN \* get_driver raised: driver is None in the finally block
               /\ ok /\ ls = <<>>
               /\ HomeExcept(fb)
               /\ HomeReturn(t, fb, FALSE, hx)
          ELSE IF ~ok
          THEN \* driver.get or wait.until raised
               /\ ls = <<>>
               /\ HomeExcept(fb)
               /\ pc' = [pc EXCEPT ![t] = "home_quit"]
               /\ loc' = [loc EXCEPT ![t].driver = TRUE, ![t].matches = fb]
               /\ hist' = [hist EXCEPT ![t] =
                     [hx EXCEPT !.effects = @ \cup {"fetch"}]]
               /\ UNCHANGED <<cache, result>>
          ELSE /\ fb = <<>>
               /\ IF links = <<>>
                  THEN /\ pc' = [pc EXCEPT ![t] = "home_quit"]
                       /\ loc' = [loc EXCEPT ![t].driver = TRUE, ![t].matches = <<>>]
                       /\ hist' = [hist EXCEPT ![t] = hf]
                  ELSE /\ pc' = [pc EXCEPT ![t] = "rl_wait"]
                       /\ loc' = [loc EXCEPT ![t] =
                             [StartPage(loc[t], Head(links)) EXCEPT
                                 !.driver = TRUE, !.links = Tail(links)]]
                       /\ hist' = [hist EXCEPT ![t] =
                             [hf EXCEPT !.attempted = Append(@, Head(links))]]
               /\ UNCHANGED <<cache, result>>
    /\ UNCHANGED <<frame, impl, SELENIUM_AVAILABLE, ENABLE_SELENIUM, callers, now,
                   scraper, last_call, req, calls>>

\* finally: if driver: driver.quit(); return matches.  ok = FALSE:
\* driver.quit() raises (the browser is taken to have stopped all the same).
HomeQuit(t, ok) ==
    /\ pc[t] = "home_quit"
    /\ IF ok
       THEN HomeReturn(t, loc[t].matches, FALSE, [hist[t] EXCEPT !.live = @ - 1])
       ELSE HomeReturn(t, loc[t].matches, TRUE, [hist[t] EXCEPT !.live = @ - 1])
    /\ UNCHANGED <<frame, impl, SELENIUM_AVAILABLE, ENABLE_SELENIUM, callers, now,
                   scraper, last_call, req, calls>>

-----------------------------------------------------------------------------
(* RateLimiter.wait *)

\* now = time.time(); elapsed = now - self.last_call; wait_time = ...
RlWait(t) ==
    /\ pc[t] = "rl_wait"
    /\ pc' = [pc EXCEPT ![t] = "rl_sleep"]
    /\ loc' = [loc EXCEPT ![t].wake = WakeTime(now, last_call[loc[t].inst])]
    /\ hist' = [hist EXCEPT ![t].effects = @ \cup {"wait"},
                            ![t].slept = WakeTime(now, last_call[loc[t].inst]) > now]
    /\ UNCHANGED <<frame, impl, SELENIUM_AVAILABLE, ENABLE_SELENIUM, callers, now,
                   scraper, cache, last_call, req, result, calls>>

\* time.sleep(wait_time) is over; self.last_call = time.time()
RlDone(t) ==
    /\ pc[t] = "rl_sleep"
    /\ now >= loc[t].wake
    /\ last_call' = [last_call EXCEPT ![loc[t].inst] = now]
    /\ pc' = [pc EXCEPT ![t] = "get_driver"]
    /\ loc' = [loc EXCEPT ![t].wake = 0]
    /\ hist' = [hist EXCEPT ![t].waits = @ + 1]
    /\ UNCHANGED <<frame, impl, SELENIUM_AVAILABLE, ENABLE_SELENIUM, callers, now,
                   scraper, cache, req, result, calls>>

-----------------------------------------------------------------------------
(* scrape_match_page after the rate limiter *)

\* variant: match_data['stream_url'] assigned on the failure paths too
ScrapedStreamOnError(md, out, st) ==
    [md EXCEPT !.stream_url = st, !.error = out # "ok"]

\* the match_data that the try block of scrape_match_page leaves:
\* "load_fail": driver.get or wait.until raised; "source_fail": an exception
\* after _extract_match_info_from_url; "ok": stream_url is set (st)
Scraped(md, out, st) ==
    LET named == [md EXCEPT !.match_name =
                     IF HasSlug(md.match_url) THEN "parsed" ELSE "absent"]
    IN IF out = "load_fail" THEN [md EXCEPT !.error = TRUE]
       ELSE IF out = "source_fail" THEN [named EXCEPT !.error = TRUE]
       ELSE [named EXCEPT !.stream_url = st]

LoadOutcomes == {"ok", "load_fail", "source_fail"}

\* driver = self.get_driver(); driver.get(url); wait.until(body); extraction;
\* except: match_data['error'] = str(e); finally: if driver: driver.quit();
\* return match_data.  quit_ok = FALSE: driver.quit() raises (the browser is
\* taken to have stopped all the same).
ScrapePage(t, out, lout, st, quit_ok) ==
    /\ pc[t] = "get_driver"
    /\ LET h == Started(hist[t], out) IN
       IF out # "ok"
       THEN /\ lout = "ok" /\ st = "none" /\ quit_ok
            /\ PageReturn(t, [loc[t].match_data EXCEPT !.error = TRUE], FALSE, h)
       ELSE /\ lout # "ok" => st = "none"
            /\ LET md == Scraped(loc[t].match_data, lout, st)
                   hf == [h EXCEPT !.effects = @ \cup {"fetch"}]
               IN IF quit_ok
                  THEN PageReturn(t, md, FALSE, [hf EXCEPT !.live = @ - 1])
                  ELSE PageReturn(t, md, TRUE, [hf EXCEPT !.live = @ - 1])
    /\ UNCHANGED <<frame, impl, SELENIUM_AVAILABLE, ENABLE_SELENIUM, callers, now,
                   scraper, last_call, req, calls>>

-----
(* The environment *)

\* the response has been sent
Ack(t) ==
    /\ pc[t] = "done"
    /\ pc' = [pc EXCEPT ![t] = "idle"]
    /\ req' = [req EXCEPT ![t] = NoRequest]
    /\ result' = [result EXCEPT ![t] = NoResult]
    /\ hist' = [hist EXCEPT ![t] = HistInit]
    /\ UNCHANGED <<frame, impl, SELENIUM_AVAILABLE, ENABLE_SELENIUM, callers, now,
                   scraper, cache, last_call, loc, calls>>

Tick ==
    /\ now < Epoch + MaxTime
    /\ now' = now + 1
    /\ UNCHANGED <<frame, impl, SELENIUM_AVAILABLE, ENABLE_SELENIUM, callers, scraper,
                   cache, last_call, pc, req, loc, result, hist, calls>>

RequestStep(O, U) ==
    \E t \in callers, o \in O, u \in U \cup {MissingUrl} :
        /\ o = "matches" => u = MissingUrl
        /\ Request(t, o, u)

\* the steps of get_matches only
HomeSteps ==
    \/ \E t \in callers, ok \in BOOLEAN, fb \in FallbackLists : FallbackOnly(t, ok, fb)
    \/ \E t \in callers, out \in DriverOutcomes, ok \in BOOLEAN, ls \in LinkLists,
          fb \in FallbackLists : HomeFetch(t, out, ok, ls, fb)
    \/ \E t \in callers, ok \in BOOLEAN : HomeQuit(t, ok)

\* the steps every operation takes
PageSteps ==
    \/ \E t \in callers : GetScraper(t)
    \/ \E t \in callers, ok \in BOOLEAN : ScraperInit(t, ok)
    \/ \E t \in callers : CacheCheck(t)
    \/ \E t \in callers : RlWait(t)
    \/ \E t \in callers : RlDone(t)
    \/ \E t \in callers, out \in DriverOutcomes, lout \in LoadOutcomes,
          st \in {"none", "url"}, quit_ok \in BOOLEAN :
          ScrapePage(t, out, lout, st, quit_ok)
    \/ \E t \in callers : Ack(t)
    \/ Tick

Next == RequestStep(Ops, Urls) \/ HomeSteps \/ PageSteps

\* requests to /api/match and /api/stream for one match page
NextSingle == RequestStep({"match", "stream"}, {SlugUrl}) \/ PageSteps

\* requests served one at a time, all three endpoints
Spec == Init /\ [][Next]_vars

\* two callers at once on /api/match and /api/stream
SpecConc == InitConc /\ [][NextSingle]_vars

-----------------------------------------------------------------------------
(* get_matches on a homepage with more links than src/app.py's max_matches; *)
(* browsers start and stop without error                                    *)

MaxBatch == 4       \* links the homepage yields at most in these runs

BatchUrls ==
    <<SlugUrl, PlainUrl, "/game/match-c-vs-d", "/game/456", "/game/789">>

\* list(match_links): the first n links of the homepage
BatchLinkLists == {Take(BatchUrls, n) : n \in 0..MaxBatch}

\* the clock runs long enough for one wait per link
BatchTick ==
    /\ now < Epoch + MaxBatch * MinInterval
    /\ now' = now + 1
    /\ UNCHANGED <<frame, impl, SELENIUM_AVAILABLE, ENABLE_SELENIUM, callers,
                   scraper, cache, last_call, pc, req, loc, result, hist, calls>>

NextBatch ==
    \/ RequestStep({"matches"}, {})
    \/ \E t \in callers, fb \in FallbackLists : FallbackOnly(t, TRUE, fb)
    \/ \E t \in callers : GetScraper(t)
    \/ \E t \in callers : ScraperInit(t, TRUE)
    \/ \E t \in callers : CacheCheck(t)
    \/ \E t \in callers, ls \in BatchLinkLists : HomeFetch(t, "ok", TRUE, ls, <<>>)
    \/ \E t \in callers : RlWait(t)
    \/ \E t \in callers : RlDone(t)
    \/ \E t \in callers, lout \in {"ok", "load_fail"} :
          ScrapePage(t, "ok", lout, IF lout = "ok" THEN "url" ELSE "none", TRUE)
    \/ \E t \in callers : HomeQuit(t, TRUE)
    \/ \E t \in callers : Ack(t)
    \/ BatchTick

SpecBatch == Init /\ [][NextBatch]_vars

-----------------------------------------------------------------------------
(* The helper methods of CamelLiveScraper, each called on its own with       *)
(* arguments drawn from a bounded set.  A Python str is a TLA+ string.       *)

progVars == <<impl, SELENIUM_AVAILABLE, ENABLE_SELENIUM, callers, now, scraper,
              cache, last_call, pc, req, loc, result, hist, calls>>

\* the process is up and serves no request; frames: the calls to be made
InitHelper(frames) ==
    /\ impl \in {"scraper", "app"}
    /\ SELENIUM_AVAILABLE = TRUE
    /\ ENABLE_SELENIUM = TRUE
    /\ callers = {}
    /\ now = Epoch
    /\ scraper = None
    /\ cache = [i \in AllCallers |-> EmptyCache]
    /\ last_call = [i \in AllCallers |-> 0]
    /\ pc = [t \in AllCallers |-> "idle"]
    /\ req = [t \in AllCallers |-> NoRequest]
    /\ loc = [t \in AllCallers |-> LocInit]
    /\ result = [t \in AllCallers |-> NoResult]
    /\ hist = [t \in AllCallers |-> HistInit]
    /\ calls = 0
    /\ frame \in frames

\* s.startswith(p)
StartsWith(s, p) == Len(s) >= Len(p) /\ SubSeq(s, 1, Len(p)) = p

\* sub in s
Contains(s, sub) ==
    \E i \in 1..(Len(s) - Len(sub) + 1) : SubSeq(s, i, i + Len(sub) - 1) = sub

UpperCase == "ABCDEFGHIJKLMNOPQRSTUVWXYZ"
LowerCase == "abcdefghijklmnopqrstuvwxyz"

\* the position of the character c in s, 0 when it is not there
IndexIn(c, s) ==
    IF \E i \in 1..Len(s) : SubSeq(s, i, i) = c
    THEN CHOOSE i \in 1..Len(s) : SubSeq(s, i, i) = c
    ELSE 0

LowerChar(c) ==
    IF IndexIn(c, UpperCase) > 0
    THEN SubSeq(LowerCase, IndexIn(c, UpperCase), IndexIn(c, UpperCase)) ELSE c

UpperChar(c) ==
    IF IndexIn(c, LowerCase) > 0
    THEN SubSeq(UpperCase, IndexIn(c, LowerCase), IndexIn(c, LowerCase)) ELSE c

\* s.lower()
RECURSIVE Lower(_)
Lower(s) ==
    IF s = "" THEN ""
    ELSE LowerChar(SubSeq(s, 1, 1)) \o Lower(SubSeq(s, 2, Len(s)))

\* ''.join(ps)
RECURSIVE Concat(_)
Concat(ps) == IF ps = <<>> THEN "" ELSE Head(ps) \o Concat(Tail(ps))

\* the strings made of at most n of the given parts
Joined(parts, n) == {Concat(ps) : ps \in UNION {[1..k -> parts] : k \in 0..n}}

-----------------------------------------------------------------------------
(* _is_stream_url *)

MaxParts == 3       \* parts an argument of _is_stream_url is made of at most

UrlParts ==
    {"https://", "x.tv/", "ab", ".m3u8", ".MP4", "Stream", "live", "hls",
     "video", "embed"}

\* stream_indicators = [...]
stream_indicators ==
    IF impl = "scraper"
    THEN <<".m3u8", ".mp4", "stream", "live", "hls", "video", "embed">>
    ELSE <<".m3u8", ".mp4", "stream", "live", "hls", "video">>

\* if not url or len(url) < 10: return False
\* return any(indicator in url_lower for indicator in stream_indicators)
is_stream_url(url) ==
    IF url = "" \/ Len(url) < 10 THEN FALSE
    ELSE \E i \in DOMAIN stream_indicators :
            Contains(Lower(url), stream_indicators[i])

IsStreamUrlFrames ==
    {[fn |-> "is_stream_url", pc |-> "call", url |-> u, ret |-> FALSE] :
        u \in Joined(UrlParts, MaxParts)}

IsStreamUrlCall ==
    /\ frame.fn = "is_stream_url" /\ frame.pc = "call"
    /\ frame' = [frame EXCEPT !.pc = "return", !.ret = is_stream_url(frame.url)]
    /\ UNCHANGED progVars

InitStreamUrl == InitHelper(IsStreamUrlFrames)

NextStreamUrl == IsStreamUrlCall

SpecStreamUrl == InitStreamUrl /\ [][NextStreamUrl]_vars

-----------------------------------------------------------------------------
(* _select_best_stream *)

MaxSources == 3     \* candidates in a list given to _select_best_stream

\* the kinds the detectors produce, and one that no entry of priority names
SourceKinds ==
    {"m3u8_pattern", "video_element", "iframe", "javascript", "data_attribute",
     "other"}

\* the keys of the dict priority
KnownKinds ==
    IF impl = "scraper"
    THEN {"m3u8_pattern", "video_element", "iframe", "javascript", "data_attribute"}
    ELSE {"m3u8_pattern", "video_element", "iframe"}

\* the default of priority.get(x[0], 999)
unknown_priority == 999

\* priority.get(kind, 999)
priority(kind) ==
    IF kind \notin KnownKinds THEN unknown_priority
    ELSE CASE kind = "m3u8_pattern" -> 1
           [] kind = "video_element" -> 2
           [] kind = "iframe" -> 3
           [] kind = "javascript" -> 4
           [] kind = "data_attribute" -> 5

\* one step of a stable sort: c goes behind every element whose key is not
\* greater than its own
InsertStable(t, c) ==
    LET k == Cardinality({i \in 1..Len(t) : priority(t[i].kind) <= priority(c.kind)})
    IN SubSeq(t, 1, k) \o <<c>> \o SubSeq(t, k + 1, Len(t))

\* sorted(stream_sources, key=lambda x: priority.get(x[0], 999))
RECURSIVE sorted(_)
sorted(src) ==
    IF src = <<>> THEN <<>>
    ELSE InsertStable(sorted(SubSeq(src, 1, Len(src) - 1)), src[Len(src)])

\* variant: the first candidate found, without the sort
select_first_found(stream_sources) ==
    IF stream_sources = <<>> THEN None ELSE stream_sources[1].url

\* if not stream_sources: return None; return sorted_sources[0][1]
select_best_stream(stream_sources) ==
    IF stream_sources = <<>> THEN None ELSE sorted(stream_sources)[1].url

ManifestUrl == "https://x.tv/a.m3u8"
EmbedUrl == "https://x.tv/embed/1"

Candidates == [kind : SourceKinds, url : {ManifestUrl, EmbedUrl}]

SelectFrames ==
    {[fn |-> "select_best_stream", pc |-> "call", stream_sources |-> src,
      ret |-> None] :
        src \in UNION {[1..n -> Candidates] : n \in 0..MaxSources}}

SelectBestCall ==
    /\ frame.fn = "select_best_stream" /\ frame.pc = "call"
    /\ frame' = [frame EXCEPT !.pc = "return",
                              !.ret = select_best_stream(frame.stream_sources)]
    /\ UNCHANGED progVars

InitSelect == InitHelper(SelectFrames)

NextSelect == SelectBestCall

SpecSelect == InitSelect /\ [][NextSelect]_vars

-----------------------------------------------------------------------------
(* _extract_match_info_from_url *)

MaxWords == 4       \* words the slug of an argument is made of at most

\* the character U+2013 (EN DASH), which a TLA+ string cannot hold
EnDash == "~"

\* s.replace(a, b), a and b one character each
RECURSIVE Replace(_, _, _)
Replace(s, a, b) ==
    IF s = "" THEN ""
    ELSE (IF SubSeq(s, 1, 1) = a THEN b ELSE SubSeq(s, 1, 1))
            \o Replace(SubSeq(s, 2, Len(s)), a, b)

IsCased(c) == IndexIn(c, UpperCase) > 0 \/ IndexIn(c, LowerCase) > 0

\* s.title() from a position where the previous character is cased or not
RECURSIVE TitleFrom(_, _)
TitleFrom(s, prev_cased) ==
    IF s = "" THEN ""
    ELSE LET c == SubSeq(s, 1, 1)
         IN (IF ~IsCased(c) THEN c
             ELSE IF prev_cased THEN LowerChar(c) ELSE UpperChar(c))
                \o TitleFrom(SubSeq(s, 2, Len(s)), IsCased(c))

\* s.title()
Title(s) == TitleFrom(s, FALSE)

\* s.find(sub) + 1: the first position of sub in s, 0 when there is none
Find(s, sub) ==
    IF Contains(s, sub)
    THEN CHOOSE i \in 1..(Len(s) - Len(sub) + 1) :
            /\ SubSeq(s, i, i + Len(sub) - 1) = sub
            /\ \A j \in 1..(i - 1) : SubSeq(s, j, j + Len(sub) - 1) # sub
    ELSE 0

\* s.split(sep)
RECURSIVE Split(_, _)
Split(s, sep) ==
    LET i == Find(s, sep)
    IN IF i = 0 THEN <<s>>
       ELSE <<SubSeq(s, 1, i - 1)>> \o Split(SubSeq(s, i + Len(sep), Len(s)), sep)

RECURSIVE LStrip(_)
LStrip(s) ==
    IF s # "" /\ SubSeq(s, 1, 1) = " " THEN LStrip(SubSeq(s, 2, Len(s))) ELSE s

RECURSIVE RStrip(_)
RStrip(s) ==
    IF s # "" /\ SubSeq(s, Len(s), Len(s)) = " "
    THEN RStrip(SubSeq(s, 1, Len(s) - 1)) ELSE s

\* s.strip()
Strip(s) == LStrip(RStrip(s))

\* s.split(): the non-empty pieces between blanks
SplitWs(s) == SelectSeq(Split(s, " "), LAMBDA w : w # "")

\* sep.join(ws)
RECURSIVE Join(_, _)
Join(sep, ws) ==
    IF ws = <<>> THEN ""
    ELSE IF Len(ws) = 1 THEN ws[1]
    ELSE ws[1] \o sep \o Join(sep, Tail(ws))

\* match = re.search(r'/match-([^/]+)', url): the positions where it can match
SlugStarts(url) ==
    {i \in 1..(Len(url) - 7) :
        /\ SubSeq(url, i, i + 6) = "/match-"
        /\ SubSeq(url, i + 7, i + 7) # "/"}

\* match.group(1): from the leftmost match up to the next '/' or the end
Slug(url) ==
    LET i == CHOOSE k \in SlugStarts(url) : \A m \in SlugStarts(url) : k <= m
        rest == SubSeq(url, i + 7, Len(url))
        j == Find(rest, "/")
    IN IF j = 0 THEN rest ELSE SubSeq(rest, 1, j - 1)

\* separators = [' Vs ', ' vs ', ' - ', ' <EN DASH> ']
separators == <<" Vs ", " vs ", " - ", " " \o EnDash \o " ">>

\* the separators for which the loop body reaches `break`
Breaking(teams) ==
    {k \in DOMAIN separators :
        Contains(teams, separators[k]) /\ Len(Split(teams, separators[k])) = 2}

\* variant: mid = (len(words) + 1) // 2
mid_ceiling(words) == (Len(words) + 1) \div 2

\* mid = len(words) // 2
mid(words) == Len(words) \div 2

\* _extract_match_info_from_url(url, match_data): match_data afterwards
extract_match_info_from_url(url, match_data) ==
    IF SlugStarts(url) = {} THEN match_data
    ELSE LET teams == Title(Replace(Slug(url), "-", " "))
             named == [match_data EXCEPT !.keys = @ \cup {"match_name"},
                                         !.match_name = teams]
             teamed(home, away) ==
                 [named EXCEPT !.keys = @ \cup {"home_team", "away_team"},
                               !.home_team = home, !.away_team = away]
         IN IF Breaking(teams) # {}
            THEN LET k == CHOOSE b \in Breaking(teams) :
                              \A c \in Breaking(teams) : b <= c
                     parts == Split(teams, separators[k])
                 IN teamed(Strip(parts[1]), Strip(parts[2]))
            ELSE LET words == SplitWs(teams)
                 IN IF Len(words) >= 2
                    THEN teamed(Join(" ", SubSeq(words, 1, mid(words))),
                                Join(" ", SubSeq(words, mid(words) + 1, Len(words))))
                    ELSE named

SlugWords == {"a", "vs", "utd", "", EnDash}

\* match URLs with a slug (and a trailing /video/<id>), and URLs without
MatchUrls ==
    {"/match-" \o Join("-", ws) \o "/video/1" :
        ws \in UNION {[1..n -> SlugWords] : n \in 0..MaxWords}}
    \cup {"/game/" \o Join("-", ws) :
        ws \in UNION {[1..n -> SlugWords] : n \in 0..MaxWords}}

\* match_data = {'match_url': url}
MatchDict(url) ==
    [keys |-> {"match_url"}, match_url |-> url, match_name |-> "",
     home_team |-> "", away_team |-> ""]

ParseFrames ==
    {[fn |-> "extract_match_info_from_url", pc |-> "call", url |-> u,
      match_data |-> MatchDict(u)] : u \in MatchUrls}

ExtractMatchInfoCall ==
    /\ frame.fn = "extract_match_info_from_url" /\ frame.pc = "call"
    /\ frame' = [frame EXCEPT
                    !.pc = "return",
                    !.match_data = extract_match_info_from_url(frame.url, @)]
    /\ UNCHANGED progVars

InitParse == InitHelper(ParseFrames)

NextParse == ExtractMatchInfoCall

SpecParse == InitParse /\ [][NextParse]_vars

-----------------------------------------------------------------------------
(* extract_stream_url_enhanced and its detectors *)

MaxElements == 2    \* stream-bearing elements on a match page at most

PageUrl == "https://c.live/match-a-vs-b"
VideoUrl == "https://x.tv/v.mp4"
PlainAbsUrl == "https://x.tv/about"
RelManifestUrl == "/hls/a.m3u8"
BadManifestUrl == "//[x/a.m3u8"
ShortUrl == "/live/1"

\* What a loaded page holds, in document order.  The src of a video, source
\* or iframe element is read as the browser resolved it (absolute); data-*
\* attributes, script results and matches in the page source are raw text.
Elements ==
    [tag : {"video_src"}, value : {VideoUrl, PlainAbsUrl}]
    \cup [tag : {"iframe_src"}, value : {EmbedUrl, PlainAbsUrl}]
    \cup [tag : {"iframe_data_src"}, value : {RelManifestUrl}]
    \cup [tag : {"source_text"},
          value : {ManifestUrl, RelManifestUrl, BadManifestUrl}]
    \cup [tag : {"js"}, value : {ManifestUrl, RelManifestUrl}]
    \cup [tag : {"data_attr"}, value : {EmbedUrl, RelManifestUrl, ShortUrl}]

Pages == UNION {[1..n -> Elements] : n \in 0..MaxElements}

\* the values of the elements of the given tags, in document order
Values(page, tags) ==
    LET sel == SelectSeq(page, LAMBDA e : e.tag \in tags)
    IN [i \in 1..Len(sel) |-> sel[i].value]

\* for ...: if src and self._is_stream_url(src): return src ... return None
FirstStreamLike(vals) ==
    LET ok == SelectSeq(vals, is_stream_url)
    IN IF ok = <<>> THEN None ELSE ok[1]

\* sources.append((kind, value)) for each value
Tagged(kind, vals) == [i \in 1..Len(vals) |-> [kind |-> kind, url |-> vals[i]]]

check_video_elements(page) == FirstStreamLike(Values(page, {"video_src"}))

\* src, then data-src (src/scraper.py); src only (src/app.py)
check_iframes(page) ==
    FirstStreamLike(Values(page,
        IF impl = "scraper" THEN {"iframe_src", "iframe_data_src"}
        ELSE {"iframe_src"}))

\* the host part of a URL that starts with //
NetLoc(m) ==
    LET rest == SubSeq(m, 3, Len(m))
        j == Find(rest, "/")
    IN IF j = 0 THEN rest ELSE SubSeq(rest, 1, j - 1)

\* urljoin raises ValueError('Invalid IPv6 URL') on an unbalanced bracket
UrlJoinRaises(m) ==
    /\ StartsWith(m, "//")
    /\ Contains(NetLoc(m), "[") /\ ~Contains(NetLoc(m), "]")

\* urljoin(base_url, match) for a match that starts with '/'
urljoin(base, m) ==
    LET colon == Find(base, "://")
        rest == SubSeq(base, colon + 3, Len(base))
        j == Find(rest, "/")
        host == IF j = 0 THEN rest ELSE SubSeq(rest, 1, j - 1)
    IN IF StartsWith(m, "//") THEN SubSeq(base, 1, colon) \o m
       ELSE SubSeq(base, 1, colon + 2) \o host \o m

\* re.findall per pattern: the absolute matches, then the root-relative ones
PatternMatches(page) ==
    LET raw == Values(page, {"source_text"})
    IN SelectSeq(raw, LAMBDA m : ~StartsWith(m, "/"))
          \o SelectSeq(raw, LAMBDA m : StartsWith(m, "/"))

\* if match.startswith('/'): match = urljoin(base_url, match)
\* if self._is_stream_url(match): sources.append(('m3u8_pattern', match))
check_m3u8_sources(page, base_url) ==
    LET raw == PatternMatches(page)
        resolved == [i \in 1..Len(raw) |->
                        IF StartsWith(raw[i], "/") THEN urljoin(base_url, raw[i])
                        ELSE raw[i]]
    IN Tagged("m3u8_pattern", SelectSeq(resolved, is_stream_url))

check_javascript_sources(page) ==
    Tagged("javascript", SelectSeq(Values(page, {"js"}), is_stream_url))

check_data_attributes(page) ==
    Tagged("data_attribute", SelectSeq(Values(page, {"data_attr"}), is_stream_url))

\* the detectors extract_stream_url_enhanced calls, in its order
Detectors ==
    IF impl = "scraper" THEN <<"video", "iframe", "m3u8", "js", "data">>
    ELSE <<"video", "iframe", "m3u8">>

ExtractFrames ==
    {[fn |-> "extract_stream_url_enhanced", pc |-> "video", page |-> pg,
      page_url |-> PageUrl, stream_sources |-> <<>>, ran |-> <<>>,
      ret |-> None] : pg \in Pages}

InExtract(at) == frame.fn = "extract_stream_url_enhanced" /\ frame.pc = at

\* if video_src: stream_sources.append(('video_element', video_src))
One(kind, v) == IF v = None THEN <<>> ELSE <<[kind |-> kind, url |-> v]>>

CheckVideoElements ==
    /\ InExtract("video")
    /\ frame' = [frame EXCEPT
          !.pc = "iframe", !.ran = Append(@, "video"),
          !.stream_sources = @ \o One("video_element", check_video_elements(frame.page))]
    /\ UNCHANGED progVars

CheckIframes ==
    /\ InExtract("iframe")
    /\ frame' = [frame EXCEPT
          !.pc = "m3u8", !.ran = Append(@, "iframe"),
          !.stream_sources = @ \o One("iframe", check_iframes(frame.page))]
    /\ UNCHANGED progVars

\* an exception of urljoin leaves _check_m3u8_sources and
\* extract_stream_url_enhanced, which catch nothing
CheckM3u8Sources ==
    /\ InExtract("m3u8")
    /\ IF \E i \in 1..Len(PatternMatches(frame.page)) :
              UrlJoinRaises(PatternMatches(frame.page)[i])
       THEN frame' = [frame EXCEPT !.pc = "raised", !.ran = Append(@, "m3u8")]
       ELSE frame' = [frame EXCEPT
              !.pc = IF impl = "scraper" THEN "js" ELSE "select",
              !.ran = Append(@, "m3u8"),
              !.stream_sources = @ \o check_m3u8_sources(frame.page, frame.page_url)]
    /\ UNCHANGED progVars

CheckJavascriptSources ==
    /\ InExtract("js")
    /\ frame' = [frame EXCEPT
          !.pc = "data", !.ran = Append(@, "js"),
          !.stream_sources = @ \o check_javascript_sources(frame.page)]
    /\ UNCHANGED progVars

CheckDataAttributes ==
    /\ InExtract("data")
    /\ frame' = [frame EXCEPT
          !.pc = "select", !.ran = Append(@, "data"),
          !.stream_sources = @ \o check_data_attributes(frame.page)]
    /\ UNCHANGED progVars

\* best_stream = self._select_best_stream(stream_sources); return best_stream
SelectBest ==
    /\ InExtract("select")
    /\ frame' = [frame EXCEPT
          !.pc = "return", !.ret = select_best_stream(frame.stream_sources)]
    /\ UNCHANGED progVars

InitExtract == InitHelper(ExtractFrames)

NextExtract ==
    \/ CheckVideoElements
    \/ CheckIframes
    \/ CheckM3u8Sources
    \/ CheckJavascriptSources
    \/ CheckDataAttributes
    \/ SelectBest

SpecExtract == InitExtract /\ [][NextExtract]_vars

-----------------------------------------------------------------------------
(* Properties *)

Producing == {"home_driver", "home_quit", "rl_wait", "rl_sleep", "get_driver"}

Served(t) == pc[t] = "done"

SingleOps == {"match", "stream"}

\* C1: for sequential calls of get_cached_or_scrape on one key, a call that
\* finds an entry with now - timestamp < ttl returns the stored value and
\* does not invoke the producer; a call that finds no entry or an expired one
\* invokes the producer exactly once and, when the producer returns, the entry
\* holds the returned value.
C1_LookupContract ==
    \A t \in callers :
        (Served(t) /\ hist[t].checked) =>
            LET key == CacheKey(req[t])
                c == cache[scraper]
            IN /\ hist[t].fresh =>
                    /\ hist[t].invoked = 0
                    /\ hist[t].effects = {}
                    /\ result[t] = Respond(req[t], c[key].data)
               /\ ~hist[t].fresh =>
                    /\ hist[t].invoked = 1
                    /\ hist[t].returned =>
                          /\ key \in DOMAIN c
                          /\ result[t] = Respond(req[t], c[key].data)

\* a second call found the entry expired, ran the producer and overwrote it
C1_Witness ==
    \E t \in callers :
        /\ Served(t) /\ hist[t].checked /\ hist[t].present
        /\ ~hist[t].fresh /\ hist[t].returned

\* a second call within the TTL window was served from the cache
C1_WitnessHit ==
    \E t \in callers : Served(t) /\ hist[t].checked /\ hist[t].fresh

\* C2: the entry written on a miss carries the timestamp of the moment it is
\* written.
C2_StoredWithCurrentTimestamp ==
    \A t \in callers :
        (Served(t) /\ hist[t].returned) =>
            cache[scraper][CacheKey(req[t])].timestamp = hist[t].stored_at

\* C3: two callers that share a cache never run the producer for the same
\* key at the same time.
C3_AtomicCheckThenSet ==
    \A t1, t2 \in callers :
        (/\ t1 # t2
         /\ pc[t1] \in Producing /\ pc[t2] \in Producing
         /\ loc[t1].inst = loc[t2].inst
         /\ hist[t1].checked /\ hist[t2].checked)
        => CacheKey(req[t1]) # CacheKey(req[t2])

\* C4: an operation creates a browser, waits on the rate limiter or fetches
\* only after a cache check that found no fresh entry.
C4_CacheCheckFirst ==
    \A t \in callers :
        hist[t].effects # {} => (hist[t].checked /\ ~hist[t].fresh)

\* C5: when RateLimiter.wait returns, at least 1 / rate has passed since the
\* previous return, and last_call is the time of the return.
C5_MinSpacing ==
    [][\A t \in callers :
          (pc[t] = "rl_sleep" /\ pc'[t] = "get_driver") =>
              /\ last_call'[loc[t].inst] = now
              /\ now - last_call[loc[t].inst] >= MinInterval]_vars

\* a wait that had to sleep has returned
C5_Witness ==
    \E t \in callers :
        /\ pc[t] = "get_driver" /\ hist[t].slept
        /\ last_call[loc[t].inst] = now

\* C6: get_matches returns one record per attempted link, in order, and the
\* record of a failed link carries the error and the parsed match name.
C6_OneRecordPerLink ==
    \A t \in callers :
        (/\ Served(t) /\ req[t].op = "matches" /\ result[t].kind = "matches"
         /\ ~hist[t].fresh /\ ~hist[t].home_failed /\ hist[t].attempted # <<>>)
        => /\ Len(result[t].matches) = Len(hist[t].attempted)
           /\ \A i \in 1..Len(hist[t].attempted) :
                LET u == hist[t].attempted[i]
                    m == result[t].matches[i]
                IN /\ m.match_url = u
                   /\ u \in hist[t].failed =>
                         /\ m.error
                         /\ HasSlug(u) => m.match_name = "parsed"

\* C7: when the homepage fetch fails, get_matches returns exactly one record
\* with error set and the placeholder name, and the result is marked degraded.
C7_HomeFailurePlaceholder ==
    \A t \in callers :
        (Served(t) /\ req[t].op = "matches" /\ hist[t].home_failed) =>
            /\ result[t].kind = "matches"
            /\ result[t].fallback = "true"
            /\ Len(result[t].matches) = 1
            /\ result[t].matches[1].error
            /\ result[t].matches[1].match_name = "placeholder"

\* C8: with Selenium installed, get_match and get_stream answer a valid URL
\* with a record, whatever fails inside.
C8_AlwaysRecord ==
    \A t \in callers :
        (/\ Served(t) /\ req[t].op \in SingleOps /\ req[t].url # MissingUrl
         /\ SELENIUM_AVAILABLE /\ ENABLE_SELENIUM)
        => result[t].kind \in {"match", "stream"}

\* C9: when an operation has finished, no browser it started is running.
C9_BrowserReleased ==
    \A t \in callers : Served(t) => hist[t].live = 0

\* C10: a get_match or get_stream request without url is answered with the
\* input error in its first step, and that step leaves the cache, last_call
\* and the scraper singleton as they were and starts no browser.
C10_RejectedBeforeFetch ==
    [][\A t \in callers :
          (/\ pc[t] = "idle" /\ pc'[t] # "idle"
           /\ req'[t].op \in SingleOps /\ req'[t].url = MissingUrl)
          => /\ pc'[t] = "done"
             /\ result'[t] = InputError
             /\ hist'[t].effects = {} /\ hist'[t].live = 0
             /\ UNCHANGED <<cache, last_call, scraper>>]_vars

\* a request without url was rejected while the cache held an entry
C10_Witness ==
    \E t \in callers :
        /\ Served(t) /\ result[t] = InputError
        /\ scraper # None /\ cache[scraper] # EmptyCache

\* C11: every record in a response carries match_url, and a record with error
\* set has no stream_url.
C11_ErrorMeansNoStream ==
    \A t \in callers :
        Served(t) =>
            /\ result[t].kind = "match" =>
                  /\ result[t].match.match_url = req[t].url
                  /\ result[t].match.error => result[t].match.stream_url = "absent"
            /\ result[t].kind = "stream" => result[t].match_url = req[t].url
            /\ result[t].kind = "matches" =>
                  \A i \in 1..Len(result[t].matches) :
                      LET m == result[t].matches[i]
                      IN /\ m.match_url # MissingUrl
                         /\ m.error => m.stream_url = "absent"

\* get_match answered with the record of a match page whose fetch failed
C11_Witness ==
    \E t \in callers :
        /\ Served(t) /\ result[t].kind = "match"
        /\ result[t].match.error /\ "fetch" \in hist[t].effects

\* C19: every step that starts a browser for a match page and loads the page
\* comes after one returned RateLimiter.wait per page started in the request,
\* and the step that loads the homepage comes after no wait of the request.
C19_WaitBeforeMatchPageOnly ==
    [][\A t \in callers :
          /\ (pc[t] = "get_driver" /\ pc'[t] # "get_driver") =>
                /\ hist[t].waits = Len(hist[t].attempted)
                /\ hist[t].waits >= 1
                /\ "wait" \in hist[t].effects
          /\ (pc[t] = "home_driver" /\ pc'[t] # "home_driver") =>
                /\ hist[t].waits = 0
                /\ "wait" \notin hist[t].effects]_vars

\* the second match page of a get_matches request is about to be loaded
C19_Witness ==
    \E t \in callers :
        /\ pc[t] = "get_driver" /\ req[t].op = "matches"
        /\ hist[t].waits = 2 /\ Len(hist[t].attempted) = 2

\* the indicators of the specification: the manifest and media suffixes of
\* the source, stream, live, hls, video, embed
ClaimedIndicators == {".m3u8", ".mp4", "stream", "live", "hls", "video", "embed"}

\* C13: _is_stream_url rejects every URL shorter than 10 characters and
\* accepts a longer one iff its lowercased form contains an indicator of the
\* fixed set.
C13_IsStreamLike ==
    (frame.fn = "is_stream_url" /\ frame.pc = "return") =>
        (frame.ret <=>
            /\ Len(frame.url) >= 10
            /\ \E ind \in ClaimedIndicators : Contains(Lower(frame.url), ind))

\* C12: _select_best_stream returns None iff the list is empty; otherwise it
\* returns the URL of the first candidate, in discovery order, among those of
\* the smallest priority number, and a candidate of a kind without a priority
\* entry only when no candidate has a kind with one.
C12_SelectBest ==
    (frame.fn = "select_best_stream" /\ frame.pc = "return") =>
        LET src == frame.stream_sources
        IN /\ (frame.ret = None) <=> (src = <<>>)
           /\ src # <<>> =>
                \E i \in 1..Len(src) :
                    /\ frame.ret = src[i].url
                    /\ \A j \in 1..Len(src) :
                          /\ priority(src[j].kind) >= priority(src[i].kind)
                          /\ j < i => priority(src[j].kind) > priority(src[i].kind)
                    /\ src[i].kind \notin KnownKinds =>
                          \A j \in 1..Len(src) : src[j].kind \notin KnownKinds

\* an iframe candidate first, then two manifest candidates with different
\* URLs: the first manifest URL was returned
C12_Witness ==
    /\ frame.fn = "select_best_stream" /\ frame.pc = "return"
    /\ Len(frame.stream_sources) = 3
    /\ frame.stream_sources[1].kind = "iframe"
    /\ frame.stream_sources[2].kind = "m3u8_pattern"
    /\ frame.stream_sources[3].kind = "m3u8_pattern"
    /\ frame.stream_sources[2].url # frame.stream_sources[1].url
    /\ frame.stream_sources[2].url # frame.stream_sources[3].url
    /\ frame.ret = frame.stream_sources[2].url

\* a call of _extract_match_info_from_url has returned
Parsed == frame.fn = "extract_match_info_from_url" /\ frame.pc = "return"

\* the slug of the call's URL as the parser reads it: hyphens to blanks,
\* title case
ParsedTeams == Title(Replace(Slug(frame.url), "-", " "))

\* the separators that occur in s, by their place in the precedence list
PresentSeparators(s) == {k \in DOMAIN separators : Contains(s, separators[k])}

\* the words of the slug: its non-empty pieces between hyphens, title case
SlugWordsOf(url) ==
    LET ws == SelectSeq(Split(Slug(url), "-"), LAMBDA w : w # "")
    IN [i \in 1..Len(ws) |-> Title(ws[i])]

\* C14: when the slug holds a recognized separator, home_team and away_team
\* are set to the two non-empty parts around the first separator of the
\* precedence list that is present.
C14_SeparatorSplit ==
    (Parsed /\ SlugStarts(frame.url) # {} /\ PresentSeparators(ParsedTeams) # {}) =>
        LET k == CHOOSE b \in PresentSeparators(ParsedTeams) :
                     \A c \in PresentSeparators(ParsedTeams) : b <= c
            parts == Split(ParsedTeams, separators[k])
            md == frame.match_data
        IN /\ {"home_team", "away_team"} \subseteq md.keys
           /\ md.home_team # "" /\ md.away_team # ""
           /\ Len(parts) = 2
           /\ md.home_team = Strip(parts[1]) /\ md.away_team = Strip(parts[2])

\* C15: when the slug holds no recognized separator and has n >= 2 words,
\* home_team is its first n div 2 words and away_team the others, so both
\* are non-empty and for odd n away_team has one word more.
C15_MidpointSplit ==
    (/\ Parsed /\ SlugStarts(frame.url) # {}
     /\ PresentSeparators(ParsedTeams) = {}
     /\ Len(SlugWordsOf(frame.url)) >= 2) =>
        LET words == SlugWordsOf(frame.url)
            n == Len(words)
            md == frame.match_data
        IN /\ {"home_team", "away_team"} \subseteq md.keys
           /\ md.home_team = Join(" ", SubSeq(words, 1, n \div 2))
           /\ md.away_team = Join(" ", SubSeq(words, (n \div 2) + 1, n))
           /\ md.home_team # "" /\ md.away_team # ""
           /\ Len(SplitWs(md.away_team)) = Len(SplitWs(md.home_team)) + (n % 2)

\* a slug of three words without a separator: one word home, two away
C15_Witness ==
    /\ Parsed /\ frame.url = "/match-a-utd-a/video/1"
    /\ frame.match_data.home_team = "A"
    /\ frame.match_data.away_team = "Utd A"

\* C16: for a URL without /match-<slug> the parser sets match_name (to a
\* fixed fallback name) and neither home_team nor away_team.
C16_FallbackName ==
    (Parsed /\ SlugStarts(frame.url) = {}) =>
        /\ "match_name" \in frame.match_data.keys
        /\ frame.match_data.match_name # ""
        /\ "home_team" \notin frame.match_data.keys
        /\ "away_team" \notin frame.match_data.keys

\* url names a scheme and a host
IsAbsolute(url) == StartsWith(url, "http://") \/ StartsWith(url, "https://")

\* C17: the stream URL that extract_stream_url_enhanced returns is absolute,
\* whichever detector found it.
C17_AbsoluteStreamUrl ==
    (InExtract("return") /\ frame.ret # None) => IsAbsolute(frame.ret)

\* the page holds a stream-like value that the detector of the tag reads
Yields(page, tags) == \E i \in 1..Len(page) :
    page[i].tag \in tags /\ is_stream_url(page[i].value)

\* C18: extract_stream_url_enhanced runs every detector on every page and
\* hands _select_best_stream the detectors' outputs in detector order; with
\* a stream-like video or iframe URL and a stream-like manifest match on the
\* page it returns the manifest match.
C18_NoShortCircuit ==
    (InExtract("return") \/ InExtract("raised")) =>
        /\ frame.pc = "return"
        /\ frame.ran = Detectors
        /\ frame.stream_sources =
              One("video_element", check_video_elements(frame.page))
              \o One("iframe", check_iframes(frame.page))
              \o check_m3u8_sources(frame.page, frame.page_url)
              \o (IF impl = "scraper"
                  THEN check_javascript_sources(frame.page)
                         \o check_data_attributes(frame.page)
                  ELSE <<>>)
        /\ (/\ Yields(frame.page, {"video_src", "iframe_src"})
            /\ Yields(frame.page, {"source_text"}))
           => \E i \in 1..Len(frame.stream_sources) :
                 /\ frame.stream_sources[i].kind = "m3u8_pattern"
                 /\ frame.stream_sources[i].url = frame.ret

\* C20: in one get_matches run the match pages started and the records
\* returned are never more than the link cap (max_matches).
C20_LinkCap ==
    \A t \in callers :
        req[t].op = "matches" =>
            /\ Len(hist[t].attempted) <= max_matches
            /\ (Served(t) /\ result[t].kind = "matches") =>
                  Len(result[t].matches) <= max_matches

\* C21: a get_matches response that carries records of the static regex
\* fallback has its response-level fallback flag set.
C21_FallbackFlagged ==
    \A t \in callers :
        (/\ Served(t) /\ result[t].kind = "matches"
         /\ \E i \in 1..Len(result[t].matches) : result[t].matches[i].fallback)
        => result[t].fallback = "true"

\* C22: with callers sharing one RateLimiter, every return of wait() comes
\* at least 1 / rate after the previous return of wait() on that limiter.
C22_SharedSpacing ==
    [][\A t \in callers :
          (pc[t] = "rl_sleep" /\ pc'[t] = "get_driver") =>
              now - last_call[loc[t].inst] >= MinInterval]_vars

\* the response r reports a failed scrape: a match record with error, no
\* stream URL, or an empty list of matches
DegradedResponse(r) ==
    \/ r.kind = "match" /\ r.match.error
    \/ r.kind = "stream" /\ r.stream_url = "none"
    \/ r.kind = "matches" /\ r.matches = <<>>

\* C23: under get_cached_or_scrape a scrape that returns a degraded result
\* stores it under the call's key, and a later call that finds that entry
\* fresh answers with it without a wait, a browser or a fetch.
C23_DegradedCached ==
    \A t \in callers :
        (Served(t) /\ hist[t].checked /\ DegradedResponse(result[t])) =>
            LET key == CacheKey(req[t])
                c == cache[scraper]
            IN /\ hist[t].returned =>
                    /\ key \in DOMAIN c
                    /\ Respond(req[t], c[key].data) = result[t]
               /\ hist[t].fresh =>
                    /\ key \in DOMAIN c
                    /\ Respond(req[t], c[key].data) = result[t]
                    /\ hist[t].effects = {} /\ hist[t].invoked = 0

\* a second get_match within the TTL was answered from the cache with the
\* error record of the first
C23_Witness ==
    \E t \in callers :
        /\ Served(t) /\ hist[t].checked /\ hist[t].fresh
        /\ result[t].kind = "match" /\ result[t].match.error
        /\ hist[t].effects = {}

\* the key an operation owns: its prefix and the hash of its URL
OwnKey(r) ==
    <<IF r.op = "match" THEN "match_"
      ELSE IF r.op = "stream" THEN "stream_" ELSE "home_matches",
      IF r.op = "matches" THEN 0 ELSE Hash(r.url)>>

\* C24: a cache entry is written or replaced only by a request that owns its
\* key; a get_match or get_stream request is answered from the cache only
\* with the entry under its own key, and without such an entry it goes on to
\* its own rate-limited fetch, whatever the other operation has stored.
C24_DisjointNamespaces ==
    [][/\ \A i \in AllCallers : \A k \in DOMAIN cache'[i] :
            (i \in DOMAIN cache /\ (k \notin DOMAIN cache[i] \/ cache'[i][k] # cache[i][k]))
            => \E t \in callers :
                  /\ loc[t].inst = i /\ pc[t] \in Producing /\ pc'[t] = "done"
                  /\ k = OwnKey(req[t])
       /\ \A t \in callers :
            (/\ pc[t] = "cache_check" /\ pc'[t] # "cache_check"
             /\ req[t].op \in SingleOps) =>
                LET c == cache[loc[t].inst]
                    k == OwnKey(req[t])
                IN /\ pc'[t] = "done" =>
                        /\ k \in DOMAIN c
                        /\ result'[t] = Respond(req[t], c[k].data)
                   /\ k \notin DOMAIN c => pc'[t] = "rl_wait"]_vars

\* get_stream(url) ran its own scrape although get_match(url) had stored an
\* entry, and both entries are in the cache
C24_Witness ==
    \E t \in callers :
        /\ Served(t) /\ req[t].op = "stream"
        /\ hist[t].checked /\ ~hist[t].present /\ hist[t].returned
        /\ "fetch" \in hist[t].effects
        /\ <<"match_", Hash(req[t].url)>> \in DOMAIN cache[scraper]
        /\ <<"stream_", Hash(req[t].url)>> \in DOMAIN cache[scraper]

=============================================================================
